---- MODULE Spec2Model ----
(***************************************************************************)
(* Credential resolution and validation core of the gateway (app/auth.py)  *)
(* with the lifecycle hooks of app/main.py that call into it.              *)
(*                                                                         *)
(* Every coroutine is cut at its suspension points: one action is the code *)
(* a task runs between two awaits that really suspend (create_pool,        *)
(* pool.acquire, conn.fetchrow, conn.execute, pool.close).                 *)
(***************************************************************************)
EXTENDS Integers, Sequences, FiniteSets, TLC

VARIABLES
    _pool,       \* auth.py:15  the process-wide pool handle; 0 is Python's None
    pools,       \* every pool asyncpg.create_pool has returned: state and connections held
    req,         \* per request: the position and locals of its require_auth call
    startup,     \* position of main.startup's get_pool call
    shutdown,    \* position of main.shutdown's close_pool call
    api_tokens,  \* store table api_tokens
    sessions,    \* store table sessions
    member,      \* store table member
    now          \* the clock read by datetime.now(timezone.utc) and NOW()

vars == <<_pool, pools, req, startup, shutdown, api_tokens, sessions, member, now>>

----------------------------------------------------------------------------
(* Bounds *)

NumRequests == 2
MaxTime == 2

Requests == 1..NumRequests
Times == 0..MaxTime

----------------------------------------------------------------------------
(* Python values *)

\* None where a str is expected (Optional[str]); never a header or cookie value.
None == "<None>"
\* A local of require_auth that has not been assigned yet.
Unbound == "<unbound>"
\* fetchrow's None, and a validator's None result.
NoRow == [null |-> TRUE]
NoResult == [null |-> TRUE]
\* A nullable timestamp column: <<>> is NULL, <<t>> is the time t.
NULL == <<>>

\* bool(s) of an Optional[str]
Truthy(s) == s # None /\ s # Unbound /\ s # ""

\* s.startswith(p)
StartsWith(s, p) == Len(s) >= Len(p) /\ SubSeq(s, 1, Len(p)) = p

\* s[7:]
From7(s) == SubSeq(s, 8, Len(s))

\* A uuid column value; str(u) is its text.
Uuid(text) == <<"uuid", text>>
Str(u) == u[2]

API_KEY_PREFIX == "waro_"

max_size == 5

----------------------------------------------------------------------------
(* The locator: pure string inspection of one request *)

hash_api_key(api_key) ==
    CASE api_key = "waro_A" -> "983d9bfec3127f720d9b34cf2b0fef2932224b023aabe5f93add4a0ec5f46d2f"
      [] api_key = "waro_B" -> "c05bba69aeab6931235701c1ddbdc5338dc7be1d1116ed2f59d43bb8a3c29374"
      [] api_key = "waro_X" -> "d01790906f8e9d1448ee9e1942b9c7789255e28e3cf16ff31aec89df2f6b94db"
      [] OTHER -> "sha256(" \o api_key \o ")"

\* A plausible slip: the X-API-Key header is only read when there is no
\* Bearer Authorization header at all.
extract_api_key_bearer_shadows(headers) ==
    LET auth_header == headers.authorization
        api_key_header == headers.x_api_key
    IN  IF StartsWith(auth_header, "Bearer ")
        THEN IF StartsWith(From7(auth_header), API_KEY_PREFIX)
             THEN From7(auth_header) ELSE None
        ELSE IF StartsWith(api_key_header, API_KEY_PREFIX)
             THEN api_key_header ELSE None

\* A plausible slip: the X-API-Key header is taken without its prefix test.
extract_api_key_any_x_api_key(headers) ==
    LET auth_header == headers.authorization
        api_key_header == headers.x_api_key
    IN  IF StartsWith(auth_header, "Bearer ")
           /\ StartsWith(From7(auth_header), API_KEY_PREFIX)
        THEN From7(auth_header)
        ELSE IF api_key_header # ""
             THEN api_key_header
             ELSE None

extract_api_key(headers) ==
    LET auth_header == headers.authorization
        api_key_header == headers.x_api_key
    IN  IF StartsWith(auth_header, "Bearer ")
           /\ StartsWith(From7(auth_header), API_KEY_PREFIX)
        THEN From7(auth_header)
        ELSE IF StartsWith(api_key_header, API_KEY_PREFIX)
             THEN api_key_header
             ELSE None

extract_session_token(headers, cookies) ==
    LET auth_header == headers.authorization
        session_token == cookies.session_token
    IN  IF StartsWith(auth_header, "Bearer ")
           /\ ~StartsWith(From7(auth_header), API_KEY_PREFIX)
        THEN From7(auth_header)
        ELSE IF Truthy(session_token)
             THEN session_token
             ELSE None

----------------------------------------------------------------------------
(* The store's queries *)

\* The row as the table holds it now.
ApiTokenRows(tokens, key_hash) ==
    { [id |-> t.id, tenant_id |-> t.tenant_id, scopes |-> t.scopes,
       expires_at |-> t.expires_at, is_active |-> t.is_active]
      : t \in { u \in tokens : u.key_hash = key_hash } }

\* A plausible slip: an in-process cache answers for a key that an earlier
\* request was authenticated with, without asking the store again.
SelectApiToken_cached(tokens, key_hash) ==
    LET hits == { req[r].token : r \in { q \in DOMAIN req :
                      /\ req[q].pc = "done"
                      /\ req[q].status_code = 200
                      /\ req[q].called = <<"validate_api_key">>
                      /\ hash_api_key(req[q].arg) = key_hash } }
    IN  IF hits # {} THEN hits ELSE ApiTokenRows(tokens, key_hash)

\* SELECT id, tenant_id, scopes, expires_at, is_active FROM api_tokens
\* WHERE key_hash = $1: the rows fetchrow may return.
SelectApiToken(tokens, key_hash) ==
    { [id |-> t.id, tenant_id |-> t.tenant_id, scopes |-> t.scopes,
       expires_at |-> t.expires_at, is_active |-> t.is_active]
      : t \in { u \in tokens : u.key_hash = key_hash } }

\* A plausible slip: the join forgets "AND m.is_active = true".
SelectSession_any_membership(sess, mem, session_token) ==
    { [id |-> s.id, user_id |-> s.user_id, expires_at |-> s.expires_at,
       is_active |-> s.is_active, tenant_id |-> m.tenant_id]
      : <<s, m>> \in { p \in sess \X mem :
                         /\ p[2].user_id = p[1].user_id
                         /\ p[1].id = session_token } }

\* SELECT ... FROM sessions s JOIN member m ON m.user_id = s.user_id
\* AND m.is_active = true WHERE s.id = $1 LIMIT 1: the rows fetchrow may return.
SelectSession(sess, mem, session_token) ==
    { [id |-> s.id, user_id |-> s.user_id, expires_at |-> s.expires_at,
       is_active |-> s.is_active, tenant_id |-> m.tenant_id]
      : <<s, m>> \in { p \in sess \X mem :
                         /\ p[2].user_id = p[1].user_id
                         /\ p[2].is_active
                         /\ p[1].id = session_token } }

\* fetchrow: one of the rows, or None when there is none.
FetchRow(rows) == IF rows = {} THEN {NoRow} ELSE rows

\* A plausible slip: the UPDATE without its WHERE clause.
UpdateLastUsed_every_row(tokens, id, t) ==
    { [u EXCEPT !.last_used_at = <<t>>] : u \in tokens }

\* UPDATE api_tokens SET last_used_at = NOW() WHERE id = $1
UpdateLastUsed(tokens, id, t) ==
    { IF u.id = id THEN [u EXCEPT !.last_used_at = <<t>>] ELSE u : u \in tokens }

\* A plausible slip: <= for <.
IsExpired_inclusive(expires_at, t) == expires_at # NULL /\ expires_at[1] <= t

\* token["expires_at"] and token["expires_at"] < datetime.now(timezone.utc)
IsExpired(expires_at, t) == expires_at # NULL /\ expires_at[1] < t

----------------------------------------------------------------------------
(* One request's require_auth call: its locals and where it stands *)

NewRequest(headers, cookies) ==
    [ pc            |-> "idle",
      headers       |-> headers,
      cookies       |-> cookies,
      api_key       |-> Unbound,     \* require_auth's local api_key
      session_token |-> Unbound,     \* require_auth's local session_token
      validating    |-> "none",      \* the validator whose frame is active
      arg           |-> None,        \* that validator's argument
      called        |-> <<>>,        \* validators entered, in order
      pool          |-> 0,           \* the validator's local pool
      token         |-> NoRow,       \* the row fetchrow returned
      result        |-> NoResult,    \* what require_auth returned
      status_code   |-> 0,           \* 0 while undecided, 200 once returned
      detail        |-> "",
      fetches       |-> 0,           \* fetchrow calls that returned
      updates       |-> 0,           \* UPDATE statements that completed
      connections   |-> 0,           \* connections this request holds
      raised        |-> "",          \* the store call that raised, if one did
      checked_at    |-> NULL ]       \* the time datetime.now() gave the check

Idle == NewRequest([authorization |-> "", x_api_key |-> ""],
                   [session_token |-> None])

\* return result (a principal): the endpoint goes on with it.
Return(rq, result) ==
    [rq EXCEPT !.pc = "done", !.validating = "none", !.result = result,
               !.status_code = 200]

\* raise HTTPException(status_code=..., detail=...)
Raise(rq, status_code, detail) ==
    [rq EXCEPT !.pc = "done", !.validating = "none",
               !.status_code = status_code, !.detail = detail]

InvalidApiKey == "Invalid or expired API key"
InvalidSession == "Invalid or expired session"
AuthRequired ==
    "Authentication required. Use Authorization: Bearer <session_token> or API key"

\* A plausible slip: the store's exception is caught and treated as "not found".
StoreError_as_rejection(rq) ==
    Raise(rq, 401, IF rq.validating = "api_key" THEN InvalidApiKey ELSE InvalidSession)

\* An exception of asyncpg (create_pool, acquire, fetchrow, execute) is caught
\* nowhere in auth.py or main.py: it leaves require_auth and the framework
\* answers 500.
StoreError(rq) ==
    [rq EXCEPT !.pc = "done", !.validating = "none", !.status_code = 500,
               !.detail = "Internal Server Error"]

\* get_pool up to its await: with a pool in the handle it returns at once,
\* without one it suspends in asyncpg.create_pool.
get_pool(rq, p) ==
    IF p = 0
    THEN [rq EXCEPT !.pc = "create_pool"]
    ELSE [rq EXCEPT !.pc = "acquire", !.pool = p]

\* require_auth lines 151-153: what it does with validate_session_token's result.
AfterSession(rq, result) ==
    IF result # NoResult
    THEN Return(rq, result)
    ELSE Raise(rq, 401, InvalidSession)

\* validate_session_token up to its first suspension.
validate_session_token(rq, session_token, p) ==
    LET rq1 == [rq EXCEPT !.validating = "session", !.arg = session_token,
                          !.called = Append(@, "validate_session_token")]
    IN  IF ~Truthy(session_token)
        THEN AfterSession(rq1, NoResult)
        ELSE get_pool(rq1, p)

\* require_auth lines 147-158: the session-token half.
TrySessionToken(rq, p) ==
    LET session_token == extract_session_token(rq.headers, rq.cookies)
        rq1 == [rq EXCEPT !.session_token = session_token]
    IN  IF Truthy(session_token)
        THEN validate_session_token(rq1, session_token, p)
        ELSE Raise(rq1, 401, AuthRequired)

\* A plausible slip: the rejection tells why the key was refused.
AfterApiKey_tells_reason(rq, result, p) ==
    IF result # NoResult
    THEN Return(rq, result)
    ELSE Raise(rq, 401, IF rq.token = NoRow THEN "Unknown API key"
                        ELSE IF ~rq.token.is_active THEN "API key is disabled"
                        ELSE "API key has expired")

\* A plausible slip: a rejected API key falls through to the session token.
AfterApiKey_falls_through(rq, result, p) ==
    IF result # NoResult
    THEN Return(rq, result)
    ELSE TrySessionToken([rq EXCEPT !.validating = "none"], p)

\* require_auth lines 143-145: what it does with validate_api_key's result.
AfterApiKey(rq, result, p) ==
    IF result # NoResult
    THEN Return(rq, result)
    ELSE Raise(rq, 401, InvalidApiKey)

\* A plausible slip: the pre-filter is left out, every key goes to the store.
validate_api_key_unfiltered(rq, api_key, p) ==
    get_pool([rq EXCEPT !.validating = "api_key", !.arg = api_key,
                        !.called = Append(@, "validate_api_key")], p)

\* validate_api_key up to its first suspension.
validate_api_key(rq, api_key, p) ==
    LET rq1 == [rq EXCEPT !.validating = "api_key", !.arg = api_key,
                          !.called = Append(@, "validate_api_key")]
    IN  IF ~Truthy(api_key) \/ ~StartsWith(api_key, API_KEY_PREFIX)
        THEN AfterApiKey(rq1, NoResult, p)
        ELSE get_pool(rq1, p)

\* require_auth up to its first suspension; p is the handle _pool it finds.
require_auth(rq, p) ==
    LET api_key == extract_api_key(rq.headers)
        rq1 == [rq EXCEPT !.api_key = api_key]
    IN  IF Truthy(api_key)
        THEN validate_api_key(rq1, api_key, p)
        ELSE TrySessionToken(rq1, p)

\* A plausible slip: the is_active test is left out.
ApiTokenRejected_ignores_active(token, t) ==
    \/ token = NoRow
    \/ IsExpired(token.expires_at, t)

\* validate_api_key lines 80-87: the row is refused.
ApiTokenRejected(token, t) ==
    \/ token = NoRow
    \/ ~token.is_active
    \/ IsExpired(token.expires_at, t)

\* validate_api_key lines 94-98
ApiKeyPrincipal(token) ==
    [ token_id  |-> Str(token.id),
      tenant_id |-> Str(token.tenant_id),
      scopes    |-> token.scopes ]

\* validate_session_token lines 121-128: the row is refused.
SessionRejected(session, t) ==
    \/ session = NoRow
    \/ ~session.is_active
    \/ IsExpired(session.expires_at, t)

\* validate_session_token lines 130-134; sessions.id is text and str() of a
\* str is that str, user_id and tenant_id are uuids.
SessionPrincipal(session) ==
    [ session_id |-> session.id,
      user_id    |-> Str(session.user_id),
      tenant_id  |-> Str(session.tenant_id) ]

----------------------------------------------------------------------------
(* Pools *)

NewPool == [state |-> "open", held |-> 0]

\* A plausible slip: the connection is never given back.
Release_leaks(ps, p) == ps

\* async with pool.acquire() as conn: leaving the block gives conn back.
Release(ps, p) == [ps EXCEPT ![p].held = @ - 1]

----------------------------------------------------------------------------
(* What requests may carry, and what the store may hold *)

AuthorizationValues ==
    {"", "Bearer waro_A", "Bearer waro_X", "Bearer sess-1", "Bearer ", "Basic sess-1"}
XApiKeyValues == {"", "waro_A", "waro_B", "A"}
CookieValues == {None, "", "sess-1", "sess-9"}

\* Every combination of the three carriers.
AllInputs ==
    [ headers : [authorization : AuthorizationValues, x_api_key : XApiKeyValues],
      cookies : [session_token : CookieValues] ]

\* The few requests the concurrent specification sends.
In(a, x, c) ==
    [ headers |-> [authorization |-> a, x_api_key |-> x],
      cookies |-> [session_token |-> c] ]
FewInputs ==
    { In("Bearer waro_A", "", None),
      In("", "waro_X", "sess-1"),
      In("Bearer sess-1", "", None),
      In("", "", None) }

TokenA(is_active, expires_at) ==
    [ id |-> Uuid("token-a"), tenant_id |-> Uuid("tenant-1"), scopes |-> <<"extract">>,
      expires_at |-> expires_at, is_active |-> is_active,
      key_hash |-> hash_api_key("waro_A"), last_used_at |-> NULL ]
TokenB ==
    [ id |-> Uuid("token-b"), tenant_id |-> Uuid("tenant-2"), scopes |-> <<"extract", "chat">>,
      expires_at |-> NULL, is_active |-> TRUE,
      key_hash |-> hash_api_key("waro_B"), last_used_at |-> NULL ]
Session1(is_active, expires_at) ==
    [ id |-> "sess-1", user_id |-> Uuid("user-1"),
      expires_at |-> expires_at, is_active |-> is_active ]
Membership(tenant, is_active) ==
    [ user_id |-> Uuid("user-1"), tenant_id |-> Uuid(tenant), is_active |-> is_active ]

Expiries == {NULL, <<1>>}
MemberStates ==
    { {Membership("tenant-1", TRUE)},
      {Membership("tenant-1", FALSE)},
      {Membership("tenant-1", FALSE), Membership("tenant-2", TRUE)},
      {Membership("tenant-1", TRUE), Membership("tenant-2", TRUE)},
      {} }

----------------------------------------------------------------------------
(* Initial states *)

InitProcess ==
    /\ _pool = 0
    /\ pools = <<>>
    /\ req = [r \in Requests |-> Idle]
    /\ shutdown = [pc |-> "idle", pool |-> 0]
    /\ now = 0

\* The process as the server starts it, with lifespan events ("idle": startup
\* runs before any request) or without them ("off": startup and shutdown never
\* run, the first requests create the pool). The store holds live credentials.
Init ==
    /\ InitProcess
    /\ startup \in {"idle", "off"}
    /\ api_tokens = {TokenA(TRUE, <<1>>), TokenB}
    /\ sessions = {Session1(TRUE, NULL)}
    /\ member = {Membership("tenant-1", TRUE)}

\* The same process over every store content the validators tell apart.
InitAuth ==
    /\ InitProcess
    /\ startup = "off"
    /\ \E a \in BOOLEAN, e \in Expiries : api_tokens = {TokenA(a, e), TokenB}
    /\ \E a \in BOOLEAN, e \in Expiries : sessions = {Session1(a, e)}
    /\ member \in MemberStates

----------------------------------------------------------------------------
(* main.startup and main.shutdown *)

\* startup: await get_pool(), up to the await in create_pool.
StartupBegin ==
    /\ startup = "idle"
    /\ startup' = IF _pool = 0 THEN "create_pool" ELSE "done"
    /\ UNCHANGED <<_pool, pools, req, shutdown, api_tokens, sessions, member, now>>

\* create_pool returns: get_pool stores the pool in the handle.
StartupPoolCreated ==
    /\ startup = "create_pool"
    /\ pools' = Append(pools, NewPool)
    /\ _pool' = Len(pools) + 1
    /\ startup' = "done"
    /\ UNCHANGED <<req, shutdown, api_tokens, sessions, member, now>>

\* create_pool raises: startup fails and the server never serves.
StartupPoolFailed ==
    /\ startup = "create_pool"
    /\ startup' = "failed"
    /\ UNCHANGED <<_pool, pools, req, shutdown, api_tokens, sessions, member, now>>

\* close_pool up to await _pool.close(): the pool stops handing out
\* connections and close() waits for the ones held.
ClosePoolBegin ==
    /\ startup = "done"
    /\ shutdown.pc = "idle"
    /\ IF _pool # 0
       THEN /\ pools' = [pools EXCEPT ![_pool].state = "closing"]
            /\ shutdown' = [pc |-> "closing", pool |-> _pool]
       ELSE /\ pools' = pools
            /\ shutdown' = [pc |-> "done", pool |-> 0]
    /\ UNCHANGED <<_pool, req, startup, api_tokens, sessions, member, now>>

\* close() returns once no connection is held; then _pool = None.
ClosePoolDone ==
    /\ shutdown.pc = "closing"
    /\ pools[shutdown.pool].held = 0
    /\ pools' = [pools EXCEPT ![shutdown.pool].state = "closed"]
    /\ _pool' = 0
    /\ shutdown' = [shutdown EXCEPT !.pc = "done"]
    /\ UNCHANGED <<req, startup, api_tokens, sessions, member, now>>

----------------------------------------------------------------------------
(* A request *)

Serving == startup \in {"done", "off"}

\* A request arrives with one of `inputs` and require_auth runs up to its
\* first suspension (or to its end, when it never reaches the store).
Request(r, inputs) ==
    /\ Serving
    /\ req[r].pc = "idle"
    /\ \E i \in inputs :
         req' = [req EXCEPT ![r] = require_auth(NewRequest(i.headers, i.cookies), _pool)]
    /\ UNCHANGED <<_pool, pools, startup, shutdown, api_tokens, sessions, member, now>>

\* get_pool line 21-22: create_pool returns, the handle is overwritten and
\* the handle's value is returned.
CreatePoolReturns(r) ==
    /\ req[r].pc = "create_pool"
    /\ pools' = Append(pools, NewPool)
    /\ _pool' = Len(pools) + 1
    /\ req' = [req EXCEPT ![r].pc = "acquire", ![r].pool = Len(pools) + 1]
    /\ UNCHANGED <<startup, shutdown, api_tokens, sessions, member, now>>

CreatePoolRaises(r) ==
    /\ req[r].pc = "create_pool"
    /\ req' = [req EXCEPT ![r] = StoreError([@ EXCEPT !.raised = "create_pool"])]
    /\ UNCHANGED <<_pool, pools, startup, shutdown, api_tokens, sessions, member, now>>

\* A plausible slip: acquire with no free connection is answered as a refused
\* credential instead of waiting.
Acquire_refuses_when_exhausted(r) ==
    /\ req[r].pc = "acquire"
    /\ pools[req[r].pool].state = "open"
    /\ IF pools[req[r].pool].held < max_size
       THEN /\ pools' = [pools EXCEPT ![req[r].pool].held = @ + 1]
            /\ req' = [req EXCEPT ![r].pc = "fetchrow", ![r].connections = @ + 1]
       ELSE /\ pools' = pools
            /\ req' = [req EXCEPT ![r] = StoreError_as_rejection(@)]
    /\ UNCHANGED <<_pool, startup, shutdown, api_tokens, sessions, member, now>>

\* pool.acquire() hands out a connection of an open pool that has one free;
\* otherwise the request stays suspended here.
Acquire(r) ==
    /\ req[r].pc = "acquire"
    /\ pools[req[r].pool].state = "open"
    /\ pools[req[r].pool].held < max_size
    /\ pools' = [pools EXCEPT ![req[r].pool].held = @ + 1]
    /\ req' = [req EXCEPT ![r].pc = "fetchrow", ![r].connections = @ + 1]
    /\ UNCHANGED <<_pool, startup, shutdown, api_tokens, sessions, member, now>>

\* pool.acquire() raises: the pool is closing or closed, or the store refuses
\* the connection.
AcquireRaises(r) ==
    /\ req[r].pc = "acquire"
    /\ req' = [req EXCEPT ![r] = StoreError([@ EXCEPT !.raised = "acquire"])]
    /\ UNCHANGED <<_pool, pools, startup, shutdown, api_tokens, sessions, member, now>>

\* validate_api_key lines 71-87: fetchrow returns and the row is checked; a
\* row that passes leaves the request suspended in conn.execute.
FetchApiToken(r) ==
    /\ req[r].pc = "fetchrow"
    /\ req[r].validating = "api_key"
    /\ \E token \in FetchRow(SelectApiToken(api_tokens, hash_api_key(req[r].arg))) :
         LET rq == [req[r] EXCEPT !.token = token, !.fetches = @ + 1,
                                  !.checked_at = <<now>>]
         IN  IF ApiTokenRejected(token, now)
             THEN /\ pools' = Release(pools, rq.pool)
                  /\ req' = [req EXCEPT ![r] =
                               AfterApiKey([rq EXCEPT !.connections = @ - 1], NoResult, _pool)]
             ELSE /\ pools' = pools
                  /\ req' = [req EXCEPT ![r] = [rq EXCEPT !.pc = "execute"]]
    /\ UNCHANGED <<_pool, startup, shutdown, api_tokens, sessions, member, now>>

\* validate_session_token lines 109-134: fetchrow returns, the row is checked
\* and the validator returns.
FetchSession(r) ==
    /\ req[r].pc = "fetchrow"
    /\ req[r].validating = "session"
    /\ \E session \in FetchRow(SelectSession(sessions, member, req[r].arg)) :
         LET rq == [req[r] EXCEPT !.token = session, !.fetches = @ + 1,
                                  !.checked_at = <<now>>, !.connections = @ - 1]
         IN  req' = [req EXCEPT ![r] =
                        AfterSession(rq, IF SessionRejected(session, now)
                                         THEN NoResult
                                         ELSE SessionPrincipal(session))]
    /\ pools' = Release(pools, req[r].pool)
    /\ UNCHANGED <<_pool, startup, shutdown, api_tokens, sessions, member, now>>

\* fetchrow raises; the async with block gives the connection back.
FetchRaises(r) ==
    /\ req[r].pc = "fetchrow"
    /\ pools' = Release(pools, req[r].pool)
    /\ req' = [req EXCEPT ![r] =
                 StoreError([@ EXCEPT !.connections = @ - 1, !.raised = "fetchrow"])]
    /\ UNCHANGED <<_pool, startup, shutdown, api_tokens, sessions, member, now>>

\* validate_api_key lines 89-98: the UPDATE completes and the principal is
\* returned.
Execute(r) ==
    /\ req[r].pc = "execute"
    /\ api_tokens' = UpdateLastUsed(api_tokens, req[r].token.id, now)
    /\ pools' = Release(pools, req[r].pool)
    /\ req' = [req EXCEPT ![r] =
                 AfterApiKey([@ EXCEPT !.updates = @ + 1, !.connections = @ - 1],
                             ApiKeyPrincipal(@.token), _pool)]
    /\ UNCHANGED <<_pool, startup, shutdown, sessions, member, now>>

\* The UPDATE raises: nothing around it catches, the exception leaves
\* validate_api_key and require_auth.
ExecuteRaises(r) ==
    /\ req[r].pc = "execute"
    /\ pools' = Release(pools, req[r].pool)
    /\ req' = [req EXCEPT ![r] =
                 StoreError([@ EXCEPT !.connections = @ - 1, !.raised = "execute"])]
    /\ UNCHANGED <<_pool, startup, shutdown, api_tokens, sessions, member, now>>

\* Time passes.
Tick ==
    /\ now < MaxTime
    /\ now' = now + 1
    /\ UNCHANGED <<_pool, pools, req, startup, shutdown, api_tokens, sessions, member>>

----------------------------------------------------------------------------
(* Specifications *)

Step(r) ==
    \/ CreatePoolReturns(r)
    \/ CreatePoolRaises(r)
    \/ Acquire(r)
    \/ AcquireRaises(r)
    \/ FetchApiToken(r)
    \/ FetchSession(r)
    \/ FetchRaises(r)
    \/ Execute(r)
    \/ ExecuteRaises(r)

\* The process under concurrent requests.
Next ==
    \/ StartupBegin
    \/ StartupPoolCreated
    \/ StartupPoolFailed
    \/ ClosePoolBegin
    \/ ClosePoolDone
    \/ Tick
    \/ \E r \in Requests : Request(r, FewInputs) \/ Step(r)

Spec == Init /\ [][Next]_vars

\* One request at a time, over every input and every store content.
NextAuth ==
    \/ Tick
    \/ Request(1, AllInputs)
    \/ Step(1)

SpecAuth == InitAuth /\ [][NextAuth]_vars

----------------------------------------------------------------------------
(* The store's other writer: the service that issues and revokes credentials *)
(* in the same database                                                      *)

DeactivateApiToken ==
    /\ \E t \in api_tokens :
         /\ t.is_active
         /\ api_tokens' = (api_tokens \ {t}) \cup {[t EXCEPT !.is_active = FALSE]}
    /\ UNCHANGED <<_pool, pools, req, startup, shutdown, sessions, member, now>>

DeleteApiToken ==
    /\ \E t \in api_tokens : api_tokens' = api_tokens \ {t}
    /\ UNCHANGED <<_pool, pools, req, startup, shutdown, sessions, member, now>>

DeactivateSession ==
    /\ \E x \in sessions :
         /\ x.is_active
         /\ sessions' = (sessions \ {x}) \cup {[x EXCEPT !.is_active = FALSE]}
    /\ UNCHANGED <<_pool, pools, req, startup, shutdown, api_tokens, member, now>>

DeactivateMembership ==
    /\ \E m \in member :
         /\ m.is_active
         /\ member' = (member \ {m}) \cup {[m EXCEPT !.is_active = FALSE]}
    /\ UNCHANGED <<_pool, pools, req, startup, shutdown, api_tokens, sessions, now>>

\* Requests that present the two live credentials.
LiveInputs ==
    { In("Bearer waro_A", "", None),
      In("", "", "sess-1") }

\* The process once startup has created the pool.
InitRevoke ==
    /\ _pool = 1
    /\ pools = <<NewPool>>
    /\ req = [r \in Requests |-> Idle]
    /\ shutdown = [pc |-> "idle", pool |-> 0]
    /\ now = 0
    /\ startup = "done"
    /\ api_tokens = {TokenA(TRUE, <<1>>)}
    /\ sessions = {Session1(TRUE, <<1>>)}
    /\ member = {Membership("tenant-1", TRUE)}

\* Requests with live credentials while the credentials expire and are
\* being revoked.
NextRevoke ==
    \/ Tick
    \/ DeactivateApiToken
    \/ DeleteApiToken
    \/ DeactivateSession
    \/ DeactivateMembership
    \/ \E r \in Requests :
         \/ Request(r, LiveInputs)
         \/ Acquire(r)
         \/ FetchApiToken(r)
         \/ FetchSession(r)
         \/ Execute(r)

SpecRevoke == InitRevoke /\ [][NextRevoke]_vars

----------------------------------------------------------------------------
(* Vocabulary of the properties *)

Done(rq) == rq.pc = "done"
Authenticated(rq) == Done(rq) /\ rq.status_code = 200
Rejected(rq, detail) == Done(rq) /\ rq.status_code = 401 /\ rq.detail = detail

\* The request's API key validation got a row (or none) back from the store.
LookedUpApiKey(rq) == rq.called = <<"validate_api_key">> /\ rq.fetches = 1
LookedUpSession(rq) == rq.called = <<"validate_session_token">> /\ rq.fetches = 1

\* The credential require_auth settled on, read off its locals.
Selected(rq) ==
    IF Truthy(rq.api_key) THEN <<"api_key", rq.api_key>>
    ELSE IF rq.session_token \notin {None, Unbound} THEN <<"session", rq.session_token>>
    ELSE <<"none", None>>

IsBearer(headers) == StartsWith(headers.authorization, "Bearer ")
BearerToken(headers) == From7(headers.authorization)
HasPrefix(s) == StartsWith(s, API_KEY_PREFIX)

\* The five locator rules in the order section 4.1 of the specification lists them.
LocateAsSpecified(headers, cookies) ==
    IF IsBearer(headers) /\ HasPrefix(BearerToken(headers))
        THEN <<"api_key", BearerToken(headers)>>
    ELSE IF IsBearer(headers) THEN <<"session", BearerToken(headers)>>
    ELSE IF HasPrefix(headers.x_api_key) THEN <<"api_key", headers.x_api_key>>
    ELSE IF Truthy(cookies.session_token) THEN <<"session", cookies.session_token>>
    ELSE <<"none", None>>

\* The same rules with the prefixed X-API-Key ahead of the non-prefixed Bearer.
LocateApiKeyFirst(headers, cookies) ==
    IF IsBearer(headers) /\ HasPrefix(BearerToken(headers))
        THEN <<"api_key", BearerToken(headers)>>
    ELSE IF HasPrefix(headers.x_api_key) THEN <<"api_key", headers.x_api_key>>
    ELSE IF IsBearer(headers) THEN <<"session", BearerToken(headers)>>
    ELSE IF Truthy(cookies.session_token) THEN <<"session", cookies.session_token>>
    ELSE <<"none", None>>

\* The validator a selected credential is handed to.
ValidatorOf(credential) ==
    IF credential[1] = "api_key" THEN <<"validate_api_key">>
    ELSE IF credential[1] = "session" /\ credential[2] # ""
         THEN <<"validate_session_token">>
    ELSE <<>>

----------------------------------------------------------------------------
(* C1 *)

\* C1: under concurrent first use (no close_pool has run) at most one pool is
\* ever created and every caller of get_pool holds the pool of the handle.
C1_OnePoolUnderConcurrentFirstUse ==
    shutdown.pc = "idle" =>
        /\ Len(pools) <= 1
        /\ \A r \in Requests : req[r].pool # 0 => req[r].pool = _pool

----------------------------------------------------------------------------
(* C2 *)

\* C2 as claimed: the credential require_auth selects is the one the rules
\* give in the order Bearer waro_, Bearer other, X-API-Key waro_, cookie, none.
C2_SelectsInSpecifiedOrder ==
    \A r \in Requests :
        req[r].pc # "idle" => Selected(req[r]) = LocateAsSpecified(req[r].headers, req[r].cookies)

\* C2 amended: the credential require_auth selects, and the validator it hands
\* it to, are given by the order Bearer waro_, X-API-Key waro_, Bearer other,
\* cookie, none: a prefixed X-API-Key beats a non-prefixed Bearer token.
C2_SelectsApiKeyFirst ==
    \A r \in Requests :
        req[r].pc # "idle" =>
            /\ Selected(req[r]) = LocateApiKeyFirst(req[r].headers, req[r].cookies)
            /\ req[r].called = ValidatorOf(Selected(req[r]))

\* A non-prefixed Bearer token together with a prefixed X-API-Key.
C2_Witness ==
    \E r \in Requests :
        /\ Done(req[r])
        /\ req[r].headers.authorization = "Bearer sess-1"
        /\ req[r].headers.x_api_key = "waro_A"
        /\ Selected(req[r]) = <<"api_key", "waro_A">>

----------------------------------------------------------------------------
(* C3 *)

\* C3: a request with an API-key-shaped credential never enters session
\* validation, and when the key's row is refused the request ends with the
\* API key rejection.
C3_NoFallThrough ==
    \A r \in Requests :
        Truthy(req[r].api_key) =>
            /\ req[r].called = <<"validate_api_key">>
            /\ req[r].session_token = Unbound
            /\ (/\ Done(req[r])
                /\ req[r].fetches = 1
                /\ \/ req[r].token = NoRow
                   \/ ~req[r].token.is_active
                   \/ (req[r].token.expires_at # NULL
                       /\ req[r].token.expires_at[1] < req[r].checked_at[1]))
               => Rejected(req[r], InvalidApiKey)

\* An unknown API key beside a session cookie that validates.
C3_Witness ==
    \E r \in Requests :
        /\ Rejected(req[r], InvalidApiKey)
        /\ req[r].fetches = 1
        /\ req[r].token = NoRow
        /\ \E s \in SelectSession(sessions, member, req[r].cookies.session_token) :
               s.is_active /\ s.expires_at = NULL

----------------------------------------------------------------------------
(* C4 *)

NoCredentialCarried(rq) ==
    /\ ~IsBearer(rq.headers)
    /\ ~HasPrefix(rq.headers.x_api_key)
    /\ ~Truthy(rq.cookies.session_token)

\* C4: a request ends with the generic "authentication required" rejection
\* exactly when it carries no Bearer header, no prefixed X-API-Key and no
\* session cookie; a located credential that fails (an empty Bearer token
\* included) ends with its shape's rejection.
C4_GenericIffNoCredential ==
    \A r \in Requests :
        (Done(req[r]) /\ req[r].status_code = 401) =>
            (req[r].detail = AuthRequired <=> NoCredentialCarried(req[r]))

----------------------------------------------------------------------------
(* C5 *)

\* The row the API key lookup returned was active and unexpired at the check.
MatchedLiveToken(rq) ==
    /\ LookedUpApiKey(rq)
    /\ rq.token # NoRow
    /\ rq.token.is_active
    /\ (rq.token.expires_at = NULL \/ rq.token.expires_at[1] >= rq.checked_at[1])

\* C5: a request whose API key matched a record that was active and unexpired
\* at the check ends authenticated with that record's tenant and scopes, after
\* exactly one last-used update.
C5_LiveKeyAuthenticatesWithOneUpdate ==
    \A r \in Requests :
        (Done(req[r]) /\ MatchedLiveToken(req[r])) =>
            /\ Authenticated(req[r])
            /\ req[r].result.tenant_id = Str(req[r].token.tenant_id)
            /\ req[r].result.scopes = req[r].token.scopes
            /\ req[r].updates = 1

----------------------------------------------------------------------------
(* C6 *)

\* C6: when the last-used update raises after a successful check, the request
\* is still authenticated as the matched record's principal.
C6_UpdateFailureDoesNotFailRequest ==
    \A r \in Requests :
        req[r].raised = "execute" =>
            /\ Authenticated(req[r])
            /\ req[r].result = ApiKeyPrincipal(req[r].token)

----------------------------------------------------------------------------
(* C7 *)

\* The row a lookup returned exists and is active: only its expiry is left to
\* decide the check.
FetchedActiveRow(rq) ==
    /\ LookedUpApiKey(rq) \/ LookedUpSession(rq)
    /\ rq.token # NoRow
    /\ rq.token.is_active

\* C7: an active record (API key or session) with expires_at set is rejected
\* if and only if expires_at is strictly before the time read at the check; one
\* with expires_at equal to or after that time, or without expiry, is not.
C7_ExpiryBoundary ==
    \A r \in Requests :
        FetchedActiveRow(req[r]) =>
            LET e == req[r].token.expires_at
                t == req[r].checked_at[1]
            IN  /\ (e # NULL /\ e[1] < t) =>
                      Rejected(req[r], IF LookedUpApiKey(req[r])
                                       THEN InvalidApiKey ELSE InvalidSession)
                /\ (e = NULL \/ e[1] >= t) => req[r].status_code # 401

\* An API key whose record expires exactly at the time of the check is accepted.
C7_Witness ==
    \E r \in Requests :
        /\ Authenticated(req[r])
        /\ LookedUpApiKey(req[r])
        /\ req[r].token.expires_at = req[r].checked_at

----------------------------------------------------------------------------
(* C8 *)

\* C8: an API key whose matched record is inactive ends with the invalid
\* API key rejection, whatever its expires_at, and is never authenticated.
C8_InactiveKeyRejected ==
    \A r \in Requests :
        (/\ LookedUpApiKey(req[r])
         /\ req[r].token # NoRow
         /\ ~req[r].token.is_active)
        => /\ Rejected(req[r], InvalidApiKey)
           /\ req[r].result = NoResult
           /\ req[r].updates = 0

\* An inactive record whose expiry is still in the future is rejected.
C8_Witness ==
    \E r \in Requests :
        /\ LookedUpApiKey(req[r])
        /\ req[r].token # NoRow
        /\ ~req[r].token.is_active
        /\ req[r].token.expires_at # NULL
        /\ req[r].token.expires_at[1] > req[r].checked_at[1]
        /\ Rejected(req[r], InvalidApiKey)

----------------------------------------------------------------------------
(* C9 *)

ActiveMemberships(user_id) ==
    { m \in member : m.user_id = user_id /\ m.is_active }

\* C9: a session validation whose session's user has no active membership is
\* rejected, and an authenticated session's tenant is the tenant of an active
\* membership of the session's user.
C9_SessionNeedsActiveMembership ==
    \A r \in Requests :
        LookedUpSession(req[r]) =>
            /\ (\A s \in sessions :
                   s.id = req[r].arg => ActiveMemberships(s.user_id) = {})
               => Rejected(req[r], InvalidSession)
            /\ Authenticated(req[r]) =>
                   \E s \in sessions :
                       /\ s.id = req[r].result.session_id
                       /\ Str(s.user_id) = req[r].result.user_id
                       /\ \E m \in ActiveMemberships(s.user_id) :
                              Str(m.tenant_id) = req[r].result.tenant_id

\* The session row is active and unexpired, its user's only membership is
\* inactive, and the request is rejected.
C9_Witness ==
    \E r \in Requests :
        /\ LookedUpSession(req[r])
        /\ Rejected(req[r], InvalidSession)
        /\ \E s \in sessions :
               /\ s.id = req[r].arg
               /\ s.is_active
               /\ s.expires_at = NULL
               /\ ActiveMemberships(s.user_id) = {}
               /\ \E m \in member : m.user_id = s.user_id

----------------------------------------------------------------------------
(* C10 *)

\* C10: a request during which create_pool, acquire or the lookup query
\* raised ends with status 500, never 401, and without a principal.
C10_StoreFailureIsServerError ==
    \A r \in Requests :
        req[r].raised \in {"create_pool", "acquire", "fetchrow"} =>
            /\ Done(req[r])
            /\ req[r].status_code >= 500
            /\ req[r].status_code # 401
            /\ req[r].result = NoResult

\* The lookup query of a session validation raised.
C10_Witness ==
    \E r \in Requests :
        /\ req[r].raised = "fetchrow"
        /\ req[r].called = <<"validate_session_token">>
        /\ req[r].status_code = 500

----------------------------------------------------------------------------
(* C11 *)

\* The request with its X-API-Key header taken away.
WithoutXApiKey(headers) == [headers EXCEPT !.x_api_key = ""]

\* C11 as claimed: a key string without the waro_ prefix is classified as a
\* session token with that string, whether it comes as the Bearer token or
\* (no Bearer header being there) in X-API-Key.
C11_UnprefixedIsSessionToken ==
    \A r \in Requests :
        req[r].pc # "idle" =>
            LET h == req[r].headers
            IN  /\ (IsBearer(h) /\ ~HasPrefix(BearerToken(h)) /\ ~HasPrefix(h.x_api_key))
                   => Selected(req[r]) = <<"session", BearerToken(h)>>
                /\ (~IsBearer(h) /\ h.x_api_key # "" /\ ~HasPrefix(h.x_api_key))
                   => Selected(req[r]) = <<"session", h.x_api_key>>

\* C11 amended: a key string without the waro_ prefix is never classified as
\* an API key; as the Bearer token (no prefixed X-API-Key beside it) it is the
\* session token, and in X-API-Key it is ignored: the request is classified
\* as it would be without that header.
C11_UnprefixedNeverApiKey ==
    \A r \in Requests :
        req[r].pc # "idle" =>
            LET h == req[r].headers
            IN  /\ Selected(req[r])[1] = "api_key" => HasPrefix(Selected(req[r])[2])
                /\ (IsBearer(h) /\ ~HasPrefix(BearerToken(h)) /\ ~HasPrefix(h.x_api_key))
                   => Selected(req[r]) = <<"session", BearerToken(h)>>
                /\ ~HasPrefix(h.x_api_key)
                   => Selected(req[r]) = LocateApiKeyFirst(WithoutXApiKey(h), req[r].cookies)

\* An unprefixed X-API-Key alone: no credential is located at all.
C11_Witness ==
    \E r \in Requests :
        /\ Rejected(req[r], AuthRequired)
        /\ req[r].headers.x_api_key = "A"
        /\ req[r].headers.authorization = ""
        /\ Selected(req[r]) = <<"none", None>>

----------------------------------------------------------------------------
(* C12 *)

\* The credential the request's validator looks up is revoked in the store:
\* no active key record, or no active session with an active membership.
RevokedInStore(rq) ==
    IF rq.validating = "api_key"
    THEN \A t \in api_tokens : t.key_hash = hash_api_key(rq.arg) => ~t.is_active
    ELSE \A x \in sessions :
             x.id = rq.arg =>
                 \/ ~x.is_active
                 \/ \A m \in member : m.user_id = x.user_id => ~m.is_active

\* C12: a lookup that reads the store once the credential is revoked there
\* (record deactivated or removed, membership deactivated) ends the request
\* with its shape's rejection, whatever earlier requests were answered.
C12_RevocationSeenByNextLookup ==
    [][ \A r \in Requests :
          (/\ req[r].pc = "fetchrow"
           /\ req'[r].fetches = req[r].fetches + 1
           /\ RevokedInStore(req[r]))
          => /\ req'[r].pc = "done"
             /\ req'[r].status_code = 401
             /\ req'[r].detail = IF req[r].validating = "api_key"
                                 THEN InvalidApiKey ELSE InvalidSession
      ]_vars

\* One request was authenticated with the key; after the key's revocation
\* another request with the same key was rejected.
C12_Witness ==
    \E r1, r2 \in Requests :
        /\ r1 # r2
        /\ Authenticated(req[r1])
        /\ LookedUpApiKey(req[r1])
        /\ req[r2].arg = req[r1].arg
        /\ LookedUpApiKey(req[r2])
        /\ Rejected(req[r2], InvalidApiKey)
        /\ req[r2].token # NoRow
        /\ ~req[r2].token.is_active

----------------------------------------------------------------------------
(* C13 *)

\* Why the validator refused the row its lookup returned ("" when it did not).
RefusalReason(rq) ==
    IF rq.fetches # 1 THEN ""
    ELSE IF rq.token = NoRow THEN "absent"
    ELSE IF ~rq.token.is_active THEN "inactive"
    ELSE IF rq.token.expires_at # NULL /\ rq.token.expires_at[1] < rq.checked_at[1]
         THEN "expired"
    ELSE ""

\* C13: two requests whose credentials of the same shape were both refused
\* end with the same status and the same message, whatever the two reasons.
C13_RefusalReasonNotObservable ==
    \A r1, r2 \in Requests :
        (/\ req[r1].called = req[r2].called
         /\ RefusalReason(req[r1]) # ""
         /\ RefusalReason(req[r2]) # "")
        => /\ Done(req[r1]) /\ Done(req[r2])
           /\ req[r1].status_code = 401
           /\ req[r1].status_code = req[r2].status_code
           /\ req[r1].detail = req[r2].detail
           /\ req[r1].result = req[r2].result

\* Two API keys refused for different reasons, and answered alike.
C13_Witness ==
    \E r1, r2 \in Requests :
        /\ LookedUpApiKey(req[r1]) /\ LookedUpApiKey(req[r2])
        /\ RefusalReason(req[r1]) = "expired"
        /\ RefusalReason(req[r2]) \in {"absent", "inactive"}
        /\ Rejected(req[r1], InvalidApiKey)
        /\ Rejected(req[r2], InvalidApiKey)

----------------------------------------------------------------------------
(* C14 *)

\* More requests than one pool has connections.
NumLoadRequests == 6
LoadRequests == 1..NumLoadRequests

\* A server without lifespan events whose first requests arrive together, all
\* with the same live API key.
InitLoad ==
    /\ _pool = 0
    /\ pools = <<>>
    /\ req = [r \in LoadRequests |-> Idle]
    /\ shutdown = [pc |-> "idle", pool |-> 0]
    /\ now = 0
    /\ startup = "off"
    /\ api_tokens = {TokenA(TRUE, NULL)}
    /\ sessions = {}
    /\ member = {}

\* Requests that may be suspended in create_pool at the same time.
MaxRacing == 2

\* The requests are numbered in their order of arrival.
NextLoad ==
    \E r \in LoadRequests :
        \/ /\ \A q \in LoadRequests : q < r => req[q].pc # "idle"
           /\ Cardinality({q \in LoadRequests : req[q].pc = "create_pool"}) < MaxRacing
           /\ Request(r, {In("Bearer waro_A", "", None)})
        \/ CreatePoolReturns(r)
        \/ Acquire(r)
        \/ FetchApiToken(r)
        \/ Execute(r)

SpecLoad == InitLoad /\ [][NextLoad]_vars

\* Connections checked out of the first n pools of ps.
RECURSIVE Held(_, _)
Held(ps, n) == IF n = 0 THEN 0 ELSE ps[n].held + Held(ps, n - 1)

\* C14: the validations in flight never hold more store connections than the
\* configured pool maximum.
C14_ConnectionsWithinMaximum ==
    Held(pools, Len(pools)) <= max_size

----------------------------------------------------------------------------
(* C15 *)

\* C15: a step of a validation leaves sessions and memberships as they were,
\* and changes api_tokens only when it completes a successful API key
\* validation, and then only last_used_at of the record the lookup matched.
C15_OnlyLastUsedIsWritten ==
    [][ /\ sessions' = sessions
        /\ member' = member
        /\ \/ api_tokens' = api_tokens
           \/ \E r \in Requests :
                /\ req[r].pc = "execute"
                /\ Authenticated(req'[r])
                /\ req'[r].updates = req[r].updates + 1
                /\ \E u \in api_tokens :
                     /\ u.id = req[r].token.id
                     /\ u.key_hash = hash_api_key(req[r].arg)
                     /\ api_tokens' = (api_tokens \ {u})
                                          \cup {[u EXCEPT !.last_used_at = <<now>>]}
      ]_vars

\* A key was accepted: its record carries a last-used time, the other
\* record does not.
C15_Witness ==
    \E r \in Requests :
        /\ Authenticated(req[r])
        /\ LookedUpApiKey(req[r])
        /\ req[r].updates = 1
        /\ \E u, v \in api_tokens :
             /\ u.id = req[r].token.id
             /\ u.last_used_at # NULL
             /\ v.id # u.id
             /\ v.last_used_at = NULL

----------------------------------------------------------------------------
(* C16 *)

\* Arguments a validator can be handed that the locator would never produce.
DirectKeys == {None, "", "sk_live", "waro", "waro_A", "waro_X"}
DirectTokens == {None, "", "sess-1", "sess-x"}

\* A validator is entered with an argument of the caller's choosing, without
\* the locator in front of it; its result is handled as require_auth does.
DirectCall(r) ==
    /\ Serving
    /\ req[r].pc = "idle"
    /\ \/ \E api_key \in DirectKeys :
            req' = [req EXCEPT ![r] = validate_api_key(Idle, api_key, _pool)]
       \/ \E session_token \in DirectTokens :
            req' = [req EXCEPT ![r] = validate_session_token(Idle, session_token, _pool)]
    /\ UNCHANGED <<_pool, pools, startup, shutdown, api_tokens, sessions, member, now>>

NextDirect ==
    \/ Tick
    \/ Request(1, AllInputs)
    \/ DirectCall(1)
    \/ Step(1)

SpecDirect == InitAuth /\ [][NextDirect]_vars

\* The request has nothing to look up: no credential was located, or the
\* validator was handed an argument its pre-filter refuses.
NothingToLookUp(rq) ==
    /\ rq.pc # "idle"
    /\ \/ rq.called = <<>>
       \/ /\ rq.called = <<"validate_api_key">>
          /\ ~Truthy(rq.arg) \/ ~StartsWith(rq.arg, API_KEY_PREFIX)
       \/ /\ rq.called = <<"validate_session_token">>
          /\ ~Truthy(rq.arg)

\* The request has gone to the store: for the pool, a connection or a query.
WentToStore(rq) ==
    \/ rq.pc \in {"create_pool", "acquire", "fetchrow", "execute"}
    \/ rq.pool # 0
    \/ rq.connections # 0
    \/ rq.fetches # 0
    \/ rq.updates # 0
    \/ rq.raised # ""

\* C16: a request enters at most one validator and makes at most one lookup,
\* and does not go to the store at all when it has nothing to look up.
C16_AtMostOneLookup ==
    \A r \in Requests :
        /\ Len(req[r].called) <= 1
        /\ req[r].fetches <= 1
        /\ NothingToLookUp(req[r]) => ~WentToStore(req[r]) /\ Done(req[r])

\* A key without the prefix was handed to validate_api_key and refused.
C16_Witness ==
    \E r \in Requests :
        /\ req[r].called = <<"validate_api_key">>
        /\ req[r].arg = "sk_live"
        /\ Rejected(req[r], InvalidApiKey)
        /\ ~WentToStore(req[r])

----------------------------------------------------------------------------
(* C17 *)

\* A live key, an unknown key and a live session.
ExhaustInputs ==
    { In("Bearer waro_A", "", None), In("Bearer waro_X", "", None), In("", "", "sess-1") }

\* A validation of the live key that holds a connection and awaits fetchrow.
Occupying ==
    [require_auth(NewRequest([authorization |-> "Bearer waro_A", x_api_key |-> ""],
                             [session_token |-> None]), 1)
        EXCEPT !.pc = "fetchrow", !.connections = 1]

\* A started server under load: max_size validations hold every connection
\* of the pool, the other requests are still to arrive. The store does not
\* change.
InitExhaust ==
    /\ _pool = 1
    /\ pools = <<[state |-> "open", held |-> max_size]>>
    /\ req = [r \in LoadRequests |-> IF r <= max_size THEN Occupying ELSE Idle]
    /\ shutdown = [pc |-> "idle", pool |-> 0]
    /\ now = 0
    /\ startup = "done"
    /\ api_tokens = {TokenA(TRUE, NULL)}
    /\ sessions = {Session1(TRUE, NULL)}
    /\ member = {Membership("tenant-1", TRUE)}

\* What a request in flight does next when its awaited store call returns.
Resume(r) ==
    \/ Acquire(r)
    \/ FetchApiToken(r)
    \/ FetchSession(r)
    \/ Execute(r)

\* More requests than the pool has connections, numbered in their order of
\* arrival; every store call returns.
NextExhaust ==
    \E r \in LoadRequests :
        \/ /\ \A q \in LoadRequests : q < r => req[q].pc # "idle"
           /\ Request(r, ExhaustInputs)
        \/ Resume(r)

\* The event loop resumes every coroutine whose awaited call can return, and
\* the store answers every query.
FairExhaust == \A r \in LoadRequests : WF_vars(Resume(r))

SpecExhaust == InitExhaust /\ [][NextExhaust]_vars /\ FairExhaust

\* The status a validation of the request's credential against the store
\* gives when nothing delays it.
WithoutWaiting(rq) ==
    IF rq.called = <<"validate_api_key">>
    THEN IF \A token \in FetchRow(SelectApiToken(api_tokens, hash_api_key(rq.arg))) :
               ApiTokenRejected(token, now)
         THEN 401 ELSE 200
    ELSE IF \A session \in FetchRow(SelectSession(sessions, member, rq.arg)) :
               SessionRejected(session, now)
         THEN 401 ELSE 200

\* The request waits for a connection of a pool that has none free.
WaitsForConnection(rq) ==
    /\ rq.pc = "acquire"
    /\ pools[rq.pool].held = max_size

\* C17: a request that waits at an exhausted pool ends, and ends as its
\* credential ends without the wait.
C17_ExhaustionDelaysOnly ==
    \A r \in LoadRequests :
        WaitsForConnection(req[r])
            ~> (Done(req[r]) /\ req[r].status_code = WithoutWaiting(req[r]))

\* Validations hold every connection of the pool and another request waits.
C17_Witness ==
    \E r \in LoadRequests : WaitsForConnection(req[r])

----------------------------------------------------------------------------
(* C18 *)

\* The transport aborts the request: CancelledError is raised at the await
\* the coroutine is suspended in. Inside async with pool.acquire() the block
\* is left and gives the connection back; no response is sent.
Cancel(r) ==
    /\ req[r].pc \in {"create_pool", "acquire", "fetchrow", "execute"}
    /\ pools' = IF req[r].pc \in {"fetchrow", "execute"}
                THEN Release(pools, req[r].pool)
                ELSE pools
    /\ req' = [req EXCEPT ![r] =
                 [@ EXCEPT !.pc = "done", !.validating = "none", !.connections = 0,
                           !.raised = "cancelled in " \o req[r].pc]]
    /\ UNCHANGED <<_pool, startup, shutdown, api_tokens, sessions, member, now>>

\* The live credentials and an unknown key.
CancelInputs == LiveInputs \cup {In("Bearer waro_X", "", None)}

\* A started server whose requests end in every way a request can end.
NextCancel ==
    \E r \in Requests :
        \/ Request(r, CancelInputs)
        \/ Acquire(r)
        \/ AcquireRaises(r)
        \/ FetchApiToken(r)
        \/ FetchSession(r)
        \/ FetchRaises(r)
        \/ Execute(r)
        \/ ExecuteRaises(r)
        \/ Cancel(r)

SpecCancel == InitRevoke /\ [][NextCancel]_vars

\* The validations that are inside their async with pool.acquire() block.
InsideAcquire(p) ==
    {r \in DOMAIN req : req[r].pool = p /\ req[r].pc \in {"fetchrow", "execute"}}

\* C18: the connections checked out of a pool are exactly those of the
\* validations inside their async with block: a validation that has ended,
\* however it ended, holds none.
C18_ConnectionAlwaysReleased ==
    /\ \A p \in DOMAIN pools : pools[p].held = Cardinality(InsideAcquire(p))
    /\ \A r \in DOMAIN req : Done(req[r]) => req[r].connections = 0

\* A request was cancelled while its lookup was in flight, and afterwards
\* every request has ended, another one authenticated, with no connection
\* held.
C18_Witness ==
    /\ \E r \in Requests : req[r].raised = "cancelled in fetchrow"
    /\ \E r \in Requests : Authenticated(req[r])
    /\ \A r \in Requests : Done(req[r])
    /\ \A p \in DOMAIN pools : pools[p].held = 0

----------------------------------------------------------------------------
(* C19 *)

\* C19: every pool get_pool created is the one the handle names or has been
\* closed (so that with an empty handle no pool is open).
C19_NoPoolLeaked ==
    \A p \in DOMAIN pools : p = _pool \/ pools[p].state = "closed"

----------------------------------------------------------------------------
(* C20: the endpoints /extract and /chat *)

\* A plausible slip: the endpoint runs whenever require_auth has ended,
\* with or without a principal.
DependencyResolved_on_any_end(rq) == Done(rq)

\* auth: dict = Depends(require_auth): the endpoint function is called once
\* require_auth has returned; an exception of require_auth is the response.
DependencyResolved(rq) == Done(rq) /\ rq.status_code = 200

\* The endpoint's frame beside the require_auth call of the same request.
EndpointFrame(endpoint) ==
    [ endpoint      |-> endpoint,
      handler       |-> "pending",   \* where the endpoint function stands
      auth          |-> NoResult,    \* its parameter auth
      backend_calls |-> 0,           \* client.post calls to the backend
      http_status   |-> 0,           \* status of the endpoint's own response
      response      |-> NoResult ]

Endpoints == {"/extract", "/chat"}

\* What the backend may answer: JSON, JSON inside text, no JSON.
BackendResults == {"{}", "ok {} .", "ok"}

\* The texts json.loads accepts, among those the backend answers.
JsonTexts == {"{}"}

\* result.find("{"): 0-based index of the first "{", -1 when there is none.
RECURSIVE find_brace(_, _)
find_brace(result, i) ==
    IF i > Len(result) THEN -1
    ELSE IF SubSeq(result, i, i) = "{" THEN i - 1
    ELSE find_brace(result, i + 1)

\* result.rfind("}"): 0-based index of the last "}", -1 when there is none.
RECURSIVE rfind_brace(_, _)
rfind_brace(result, i) ==
    IF i < 1 THEN -1
    ELSE IF SubSeq(result, i, i) = "}" THEN i - 1
    ELSE rfind_brace(result, i - 1)

\* extract lines 75-85: the response built from the backend's text.
ExtractResponse(result, auth) ==
    IF result \in JsonTexts
    THEN [success |-> TRUE, data |-> result, tenant_id |-> auth.tenant_id]
    ELSE LET start == find_brace(result, 1)
             end == rfind_brace(result, Len(result)) + 1
         IN  IF start # -1 /\ end > start
                /\ SubSeq(result, start + 1, end) \in JsonTexts
             THEN [success |-> TRUE, data |-> SubSeq(result, start + 1, end),
                   tenant_id |-> auth.tenant_id]
             ELSE [success |-> FALSE, data |-> None, raw |-> result]

\* chat line 92
ChatResponse(result, auth) ==
    [response |-> result, tenant_id |-> auth.tenant_id]

\* A request to /extract or /chat arrives: require_auth runs first, up to its
\* first suspension.
Post(r, inputs) ==
    /\ Serving
    /\ req[r].pc = "idle"
    /\ \E i \in inputs, endpoint \in Endpoints :
         req' = [req EXCEPT ![r] =
                    require_auth(NewRequest(i.headers, i.cookies), _pool)
                        @@ EndpointFrame(endpoint)]
    /\ UNCHANGED <<_pool, pools, startup, shutdown, api_tokens, sessions, member, now>>

\* The endpoint function runs up to await client.post(...) in _chat or
\* _chat_structured.
CallBackend(r) ==
    /\ DependencyResolved(req[r])
    /\ req[r].handler = "pending"
    /\ req' = [req EXCEPT ![r].handler = "backend",
                          ![r].auth = req[r].result,
                          ![r].backend_calls = @ + 1]
    /\ UNCHANGED <<_pool, pools, startup, shutdown, api_tokens, sessions, member, now>>

\* The backend answers and the endpoint returns its response. An auth that
\* is None makes auth["tenant_id"] a TypeError, answered 500.
BackendReturns(r) ==
    /\ req[r].handler = "backend"
    /\ \E result \in BackendResults :
         req' = [req EXCEPT ![r] =
                    IF @.auth = NoResult
                    THEN [@ EXCEPT !.handler = "responded", !.http_status = 500]
                    ELSE [@ EXCEPT !.handler = "responded", !.http_status = 200,
                                   !.response = IF req[r].endpoint = "/extract"
                                                THEN ExtractResponse(result, req[r].auth)
                                                ELSE ChatResponse(result, req[r].auth)]]
    /\ UNCHANGED <<_pool, pools, startup, shutdown, api_tokens, sessions, member, now>>

\* client.post or raise_for_status raises: HTTPException(status_code=502).
BackendFails(r) ==
    /\ req[r].handler = "backend"
    /\ req' = [req EXCEPT ![r].handler = "responded", ![r].http_status = 502]
    /\ UNCHANGED <<_pool, pools, startup, shutdown, api_tokens, sessions, member, now>>

\* Keys of two tenants, an unknown key, a session, and no credential.
EndpointInputs ==
    { In("Bearer waro_A", "", None), In("", "waro_B", None),
      In("Bearer waro_X", "", None), In("", "", "sess-1"), In("", "", None) }

\* A started server; the requests carry no endpoint frame before they arrive.
InitEndpoint ==
    /\ _pool = 1
    /\ pools = <<NewPool>>
    /\ req = [r \in Requests |-> Idle @@ EndpointFrame("")]
    /\ shutdown = [pc |-> "idle", pool |-> 0]
    /\ now = 0
    /\ startup = "done"
    /\ api_tokens = {TokenA(TRUE, NULL), TokenB}
    /\ sessions = {Session1(TRUE, NULL)}
    /\ member = {Membership("tenant-1", TRUE)}

NextEndpoint ==
    \E r \in Requests :
        \/ Post(r, EndpointInputs)
        \/ Acquire(r)
        \/ AcquireRaises(r)
        \/ FetchApiToken(r)
        \/ FetchSession(r)
        \/ FetchRaises(r)
        \/ Execute(r)
        \/ ExecuteRaises(r)
        \/ CallBackend(r)
        \/ BackendReturns(r)
        \/ BackendFails(r)

SpecEndpoint == InitEndpoint /\ [][NextEndpoint]_vars

\* The tenant of the row the request's own validation looked up.
ValidatedTenant(rq) == Str(rq.token.tenant_id)

\* C20: the backend is called for a request only once require_auth has
\* returned that request's principal, never for a request answered 401 or
\* 500 by require_auth, and a response's tenant_id is the tenant of the row
\* that request's own validation looked up.
C20_BackendOnlyAfterPrincipal ==
    \A r \in Requests :
        /\ req[r].backend_calls > 0
              => /\ Authenticated(req[r])
                 /\ req[r].auth = req[r].result
                 /\ req[r].auth # NoResult
        /\ (Done(req[r]) /\ req[r].status_code \in {401, 500})
              => req[r].backend_calls = 0 /\ req[r].handler = "pending"
        /\ (req[r].handler = "responded" /\ req[r].response # NoResult
              /\ "tenant_id" \in DOMAIN req[r].response)
              => req[r].response.tenant_id = ValidatedTenant(req[r])

\* Two requests of different tenants were both answered by the backend, each
\* with its own tenant.
C20_Witness ==
    \E r1, r2 \in Requests :
        /\ req[r1].handler = "responded" /\ req[r1].http_status = 200
        /\ req[r2].handler = "responded" /\ req[r2].http_status = 200
        /\ "tenant_id" \in DOMAIN req[r1].response
        /\ "tenant_id" \in DOMAIN req[r2].response
        /\ req[r1].response.tenant_id = "tenant-1"
        /\ req[r2].response.tenant_id = "tenant-2"

====
